---- MODULE Spec2Model ----
(***************************************************************************)
(* A model of the subscription scoring agent                               *)
(* (coral-server/agents/hello-agent/main.py): the schema mapper            *)
(* map_columns, the field normalizers parse_amount / parse_bool /          *)
(* parse_number, the scoring engine compute_recommendations and the report *)
(* composer compose_summary, driven as main() drives them.                 *)
(*                                                                         *)
(* Text is a sequence of one-character strings.  Numbers read from cells   *)
(* are exact decimals held as integers in units of 1/Scale.  Scores are    *)
(* integers (every adjustment of the code is a whole number).              *)
(***************************************************************************)
EXTENDS Integers, Sequences, FiniteSets, TLC

VARIABLES pc, headers, df, colmap, recs, llm_text, summary

vars == <<pc, headers, df, colmap, recs, llm_text, summary>>

(***************************************************************************)
(* Bounds of the model.                                                    *)
(***************************************************************************)
\* Longest header list read by the schema-mapper specification.
MaxHeaders == 3

\* Most rows, and most cells (rows times columns), of a table of the
\* pipeline specification.
MaxRows == 3

MaxCells == 8

\* Longest candidate list handed to the report composer on its own, and the
\* most candidates in it that are not plain cancel candidates.
MaxRecs == 22

MaxOther == 2

(***************************************************************************)
(* Text helpers: str.lower, str.strip, the substring test `a in b`.        *)
(***************************************************************************)
\* Python's None; also what an empty (falsy) string is to `if not picked`.
None == <<>>

UpperChars == <<"A", "B", "C", "D", "E", "F", "G", "H", "I", "J", "K", "L", "M", "N", "O", "P", "Q", "R", "S", "T", "U", "V", "W", "X", "Y", "Z">>

LowerChars == <<"a", "b", "c", "d", "e", "f", "g", "h", "i", "j", "k", "l", "m", "n", "o", "p", "q", "r", "s", "t", "u", "v", "w", "x", "y", "z">>

\* The characters of the model's texts.
Alphabet ==
    {UpperChars[i] : i \in 1..Len(UpperChars)}
        \cup {LowerChars[i] : i \in 1..Len(LowerChars)}
        \cup {"0", "1", "2", "3", "4", "5", "6", "7", "8", "9"}
        \cup {"_", "/", " ", ".", ",", "-", "+", "$"}

LowerTable ==
    [c \in Alphabet |->
       IF \E i \in 1..Len(UpperChars) : UpperChars[i] = c
       THEN LowerChars[CHOOSE i \in 1..Len(UpperChars) : UpperChars[i] = c]
       ELSE c]

LowerChar(c) == LowerTable[c]

RECURSIVE Lower(_)
Lower(s) == IF s = <<>> THEN <<>> ELSE <<LowerChar(Head(s))>> \o Lower(Tail(s))

\* needle in hay (Python's substring test; the empty text is in every text)
Contains(hay, needle) ==
    \E i \in 0..(Len(hay) - Len(needle)) :
        SubSeq(hay, i + 1, i + Len(needle)) = needle

(***************************************************************************)
(* Schema mapper.                                                          *)
(***************************************************************************)
FieldNames ==
    <<"service", "amount", "currency", "frequency", "start_date",
      "last_charge_date", "last_used_date", "usage_count", "uses_per_month",
      "is_automatic", "category", "notes", "subscription_id">>

Fields == {FieldNames[i] : i \in 1..Len(FieldNames)}

COLUMN_CANDIDATES ==
    [f \in Fields |->
       CASE f = "service" ->
              << <<"s", "e", "r", "v", "i", "c", "e">>, <<"v", "e", "n", "d", "o", "r">>, <<"p", "l", "a", "n">>, <<"s", "u", "b", "s", "c", "r", "i", "p", "t", "i", "o", "n">>,
                 <<"d", "e", "s", "c", "r", "i", "p", "t", "i", "o", "n">>, <<"n", "a", "m", "e">> >>
         [] f = "amount" ->
              << <<"a", "m", "o", "u", "n", "t">>, <<"p", "r", "i", "c", "e">>, <<"c", "o", "s", "t">>, <<"c", "h", "a", "r", "g", "e">>, <<"p", "r", "i", "c", "e", "_", "u", "s", "d">>,
                 <<"v", "a", "l", "u", "e">> >>
         [] f = "currency" -> << <<"c", "u", "r", "r", "e", "n", "c", "y">>, <<"c", "u", "r", "r">> >>
         [] f = "frequency" ->
              << <<"f", "r", "e", "q", "u", "e", "n", "c", "y">>, <<"f", "r", "e", "q">>, <<"b", "i", "l", "l", "i", "n", "g", "_", "f", "r", "e", "q", "u", "e", "n", "c", "y">>, <<"p", "e", "r", "i", "o", "d">> >>
         [] f = "start_date" ->
              << <<"s", "t", "a", "r", "t", "_", "d", "a", "t", "e">>, <<"s", "t", "a", "r", "t">>, <<"d", "a", "t", "e", "_", "s", "t", "a", "r", "t", "e", "d">>, <<"c", "r", "e", "a", "t", "e", "d", "_", "a", "t">> >>
         [] f = "last_charge_date" ->
              << <<"l", "a", "s", "t", "_", "c", "h", "a", "r", "g", "e", "_", "d", "a", "t", "e">>, <<"l", "a", "s", "t", "_", "c", "h", "a", "r", "g", "e">>, <<"l", "a", "s", "t", "_", "b", "i", "l", "l", "e", "d">>,
                 <<"l", "a", "s", "t", "_", "p", "a", "y", "m", "e", "n", "t", "_", "d", "a", "t", "e">> >>
         [] f = "last_used_date" ->
              << <<"l", "a", "s", "t", "_", "u", "s", "e", "d", "_", "d", "a", "t", "e">>, <<"l", "a", "s", "t", "_", "u", "s", "e", "d">>, <<"l", "a", "s", "t", "_", "a", "c", "t", "i", "v", "i", "t", "y">>,
                 <<"l", "a", "s", "t", "_", "a", "c", "c", "e", "s", "s", "e", "d">>, <<"l", "a", "s", "t", "_", "s", "e", "e", "n">> >>
         [] f = "usage_count" ->
              << <<"u", "s", "a", "g", "e", "_", "c", "o", "u", "n", "t">>, <<"u", "s", "e", "s">>, <<"c", "o", "u", "n", "t">>, <<"t", "i", "m", "e", "s", "_", "u", "s", "e", "d">> >>
         [] f = "uses_per_month" ->
              << <<"u", "s", "e", "s", "_", "p", "e", "r", "_", "m", "o", "n", "t", "h">>, <<"u", "s", "e", "s", "/", "m", "o", "n", "t", "h">>, <<"u", "s", "a", "g", "e", "_", "p", "e", "r", "_", "m", "o", "n", "t", "h">>,
                 <<"u", "s", "e", "s", "_", "p", "e", "r", "_", "m", "o">> >>
         [] f = "is_automatic" ->
              << <<"i", "s", "_", "a", "u", "t", "o", "m", "a", "t", "i", "c">>, <<"a", "u", "t", "o">>, <<"a", "u", "t", "o", "_", "r", "e", "n", "e", "w">>, <<"a", "u", "t", "o", "m", "a", "t", "i", "c">>,
                 <<"i", "s", "_", "a", "u", "t", "o", "r", "e", "n", "e", "w">> >>
         [] f = "category" -> << <<"c", "a", "t", "e", "g", "o", "r", "y">>, <<"t", "y", "p", "e">>, <<"t", "a", "g">> >>
         [] f = "notes" -> << <<"n", "o", "t", "e", "s">>, <<"c", "o", "m", "m", "e", "n", "t">>, <<"i", "n", "f", "o">>, <<"d", "e", "t", "a", "i", "l", "s">> >>
         [] f = "subscription_id" ->
              << <<"s", "u", "b", "s", "c", "r", "i", "p", "t", "i", "o", "n", "_", "i", "d">>, <<"i", "d">>, <<"s", "u", "b", "_", "i", "d">> >> ]

\* cand.lower() of every candidate.
LowerCandidates ==
    [f \in Fields |->
       [j \in 1..Len(COLUMN_CANDIDATES[f]) |-> Lower(COLUMN_CANDIDATES[f][j])]]

\* A dict as the sequence of its <<key, value>> items in insertion order.
DictHas(d, k) == \E i \in 1..Len(d) : d[i][1] = k

DictGet(d, k) == d[CHOOSE i \in 1..Len(d) : d[i][1] = k][2]

\* d[k] = v: a new key goes last, a known key keeps its place and takes v.
DictPut(d, k, v) ==
    IF DictHas(d, k)
    THEN [i \in 1..Len(d) |-> IF d[i][1] = k THEN <<k, v>> ELSE d[i]]
    ELSE Append(d, <<k, v>>)

RECURSIVE lower_cols_from(_, _)
lower_cols_from(cols, d) ==
    IF cols = <<>> THEN d
    ELSE lower_cols_from(Tail(cols), DictPut(d, Lower(Head(cols)), Head(cols)))

\* lower_cols = {c.lower(): c for c in df.columns}
lower_cols(cols) == lower_cols_from(cols, <<>>)

\* First pass: the first candidate that is a key of lower_cols.  In the
\* two passes `candidates` holds cand.lower() of each candidate.
RECURSIVE ExactPick(_, _)
ExactPick(candidates, d) ==
    IF candidates = <<>> THEN None
    ELSE IF DictHas(d, Head(candidates))
         THEN DictGet(d, Head(candidates))
         ELSE ExactPick(Tail(candidates), d)

\* Inner loop of the fuzzy pass: some candidate matches col_l.
RECURSIVE FuzzyMatches(_, _)
FuzzyMatches(col_l, candidates) ==
    IF candidates = <<>> THEN FALSE
    ELSE IF Contains(col_l, Head(candidates))
            \/ Contains(Head(candidates), col_l)
         THEN TRUE
         ELSE FuzzyMatches(col_l, Tail(candidates))

\* Outer loop of the fuzzy pass, over the items of lower_cols.
RECURSIVE FuzzyPick(_, _)
FuzzyPick(candidates, d) ==
    IF d = <<>> THEN None
    ELSE IF FuzzyMatches(Head(d)[1], candidates) /\ Head(d)[2] # None
         THEN Head(d)[2]
         ELSE FuzzyPick(candidates, Tail(d))

PickColumn(candidates, d) ==
    LET picked == ExactPick(candidates, d)
    IN  IF picked # None THEN picked ELSE FuzzyPick(candidates, d)

map_columns(cols) ==
    LET d == lower_cols(cols)
    IN  [f \in Fields |-> PickColumn(LowerCandidates[f], d)]

(***************************************************************************)
(* Raw cells.  A cell of the table is missing (pandas' NaN), a number, a   *)
(* text, or, in a date column, a text that pandas parses to a timestamp    *)
(* (val: hours since the epoch) without or with a time zone.               *)
(***************************************************************************)
Missing == [kind |-> "nan", val |-> 0]

Num(v) == [kind |-> "num", val |-> v]

Text(s) == [kind |-> "text", val |-> s]

Date(t) == [kind |-> "date", val |-> t]

DateTz(t) == [kind |-> "datetz", val |-> t]

\* Decimal places kept by the model's numbers.
FracDigits == 2

RECURSIVE Pow10(_)
Pow10(n) == IF n = 0 THEN 1 ELSE 10 * Pow10(n - 1)

\* One unit of the code's floats, in the model's integers.
Scale == Pow10(FracDigits)

DigitChars == <<"0", "1", "2", "3", "4", "5", "6", "7", "8", "9">>

IsDigit(c) == \E i \in 1..Len(DigitChars) : DigitChars[i] = c

DigitVal(c) == (CHOOSE i \in 1..Len(DigitChars) : DigitChars[i] = c) - 1

IsSpace(c) == c = " "

\* str.strip()
RECURSIVE LStrip(_)
LStrip(s) ==
    IF s # <<>> /\ IsSpace(Head(s)) THEN LStrip(Tail(s)) ELSE s

RECURSIVE RStrip(_)
RStrip(s) ==
    IF s # <<>> /\ IsSpace(s[Len(s)])
    THEN RStrip(SubSeq(s, 1, Len(s) - 1))
    ELSE s

Strip(s) == RStrip(LStrip(s))

\* str.replace(c, "")
Remove(s, c) == SelectSeq(s, LAMBDA x : x # c)

\* The value of a run of digits.
RECURSIVE DigitsValue(_)
DigitsValue(ds) ==
    IF ds = <<>> THEN 0
    ELSE 10 * DigitsValue(SubSeq(ds, 1, Len(ds) - 1)) + DigitVal(ds[Len(ds)])

\* The value, in units of 1/Scale, of the digits after the point.
RECURSIVE FractionValue(_, _)
FractionValue(ds, place) ==
    IF ds = <<>> \/ place > FracDigits THEN 0
    ELSE DigitVal(Head(ds)) * Pow10(FracDigits - place)
            + FractionValue(Tail(ds), place + 1)

\* The place of the point in body, or one past its end.
PointAt(body) ==
    IF \E i \in 1..Len(body) : body[i] = "."
    THEN CHOOSE i \in 1..Len(body) : body[i] = "."
    ELSE Len(body) + 1

\* Digits with at most one point and at least one digit.
WellFormed(body) ==
    /\ \A i \in 1..Len(body) : IsDigit(body[i]) \/ body[i] = "."
    /\ Cardinality({i \in 1..Len(body) : body[i] = "."}) <= 1
    /\ \E i \in 1..Len(body) : IsDigit(body[i])

Magnitude(body, p) ==
    DigitsValue(SubSeq(body, 1, p - 1)) * Scale
        + FractionValue(SubSeq(body, p + 1, Len(body)), 1)

FloatOfUnsigned(body, sign) ==
    IF WellFormed(body)
    THEN [ok |-> TRUE, val |-> sign * Magnitude(body, PointAt(body))]
    ELSE [ok |-> FALSE, val |-> 0]

FloatOfStripped(t) ==
    IF t # <<>> /\ Head(t) = "-" THEN FloatOfUnsigned(Tail(t), 0 - 1)
    ELSE IF t # <<>> /\ Head(t) = "+" THEN FloatOfUnsigned(Tail(t), 1)
    ELSE FloatOfUnsigned(t, 1)

\* float(s) for a text of digits, points, signs, blanks and other
\* characters that are no part of a number: blanks around are dropped, then
\* an optional sign, then digits with at most one point and at least one
\* digit.  ok = FALSE is Python's ValueError.
FloatOf(s) == FloatOfStripped(Strip(s))

\* re.search(r"[\d\.]+", s): the first longest run of digits and points,
\* or None.
IsNumberChar(c) == IsDigit(c) \/ c = "."

RunStart(s) ==
    CHOOSE i \in 1..Len(s) :
        IsNumberChar(s[i]) /\ \A k \in 1..(i - 1) : ~IsNumberChar(s[k])

RunEnd(s, a) ==
    CHOOSE j \in a..Len(s) :
        /\ \A k \in a..j : IsNumberChar(s[k])
        /\ j = Len(s) \/ ~IsNumberChar(s[j + 1])

RunFrom(s, a) == SubSeq(s, a, RunEnd(s, a))

FirstNumberRun(s) ==
    IF \A i \in 1..Len(s) : ~IsNumberChar(s[i]) THEN None
    ELSE RunFrom(s, RunStart(s))

(***************************************************************************)
(* Field normalizers.  A result is [raised, val]: raised = TRUE is an      *)
(* exception leaving the function.                                         *)
(***************************************************************************)
Returned(v) == [raised |-> FALSE, val |-> v]

Raised == [raised |-> TRUE, val |-> 0]

\* try: return float(s) / except: return 0.0
FloatOrZero(f) == IF f.ok THEN Returned(f.val) ELSE Returned(0)

parse_amount(x) ==
    IF x.kind = "nan" THEN Returned(0)
    ELSE IF x.kind = "num" THEN Returned(x.val)
    ELSE FloatOrZero(FloatOf(Remove(Strip(Remove(x.val, ",")), "$")))

TrueWords ==
    { <<"1">>, <<"t", "r", "u", "e">>, <<"t">>, <<"y", "e", "s">>, <<"y">>, <<"a", "u", "t", "o">>, <<"a", "u", "t", "o", "m", "a", "t", "i", "c">> }

\* str(x) of a float cell has a decimal point and is none of the words.
parse_bool(x) ==
    IF x.kind = "nan" THEN Returned(FALSE)
    ELSE IF x.kind = "num" THEN Returned(FALSE)
    ELSE Returned(Lower(Strip(x.val)) \in TrueWords)

\* float(m.group(0)), outside any try.
FloatOrRaise(f) == IF f.ok THEN Returned(f.val) ELSE Raised

\* return float(m.group(0)) if m else 0.0
NumberFromRun(m) ==
    IF m = None THEN Returned(0) ELSE FloatOrRaise(FloatOf(m))

\* float(x) of a text, and the except branch when it fails.
NumberFromText(s, direct) ==
    IF direct.ok THEN Returned(direct.val)
    ELSE NumberFromRun(FirstNumberRun(s))

parse_number(x) ==
    IF x.kind = "nan" THEN Returned(0)
    ELSE IF x.kind = "num" THEN Returned(x.val)
    ELSE NumberFromText(x.val, FloatOf(x.val))

(***************************************************************************)
(* Scoring engine.                                                         *)
(***************************************************************************)
OLD_THRESHOLD_DAYS == 180

\* HIGH_COST_FACTOR = 1.5, as the fraction 3/2.
HIGH_COST_FACTOR_NUM == 3

HIGH_COST_FACTOR_DEN == 2

\* A timedelta's .days: whole days of 24 hours, rounded down.
HoursPerDay == 24

\* today = pd.Timestamp.now(), in hours since the epoch.
Today == 20758 * HoursPerDay + 15

\* r[c]: the cell of row r in the column named c.
CellOf(r, cols, c) == r[CHOOSE i \in 1..Len(cols) : cols[i] = c]

\* A value that may be absent (None, math.inf) and whose computation may
\* have raised.
Some(v) == [some |-> TRUE, raised |-> FALSE, val |-> v]

Nothing == [some |-> FALSE, raised |-> FALSE, val |-> 0]

SomeOf(result) == [some |-> TRUE, raised |-> result.raised, val |-> result.val]

\* str(x) of a cell that holds a text or is missing.
StrOf(x) == IF x.kind = "nan" THEN <<"n", "a", "n">> ELSE x.val

\* pd.to_datetime(x, errors="coerce"): a timestamp, or NaT ("nat"); a number
\* is a count of nanoseconds from the epoch, within its first hour here.
to_datetime(x) ==
    IF x.kind \in {"date", "datetz"} THEN x
    ELSE IF x.kind = "num" THEN [kind |-> "date", val |-> 0]
    ELSE [kind |-> "nat", val |-> 0]

\* (today - last_used).days if pd.notna(last_used) else math.inf; a naive
\* timestamp minus a time-zone-aware one raises TypeError.
days_since(last_used) ==
    IF last_used.kind = "nat" THEN Nothing
    ELSE IF last_used.kind = "datetz" THEN SomeOf(Raised)
    ELSE Some((Today - last_used.val) \div HoursPerDay)

\* int(x) of a float: toward zero.
IntOf(v) == IF v >= 0 THEN v \div Scale ELSE 0 - ((0 - v) \div Scale)

\* A usage adjustment that prefers usage_count to uses_per_month.
UsageAdjustCountFirst(uses_per_month, usage_count) ==
    IF usage_count.some
    THEN IF usage_count.val >= 50 * Scale THEN 20
         ELSE IF usage_count.val >= 5 * Scale THEN 5
         ELSE 0 - 15
    ELSE IF uses_per_month.some
    THEN IF uses_per_month.val >= 5 * Scale THEN 30
         ELSE IF uses_per_month.val >= 1 * Scale THEN 10
         ELSE 0 - 20
    ELSE 0 - 5

UsageAdjust(uses_per_month, usage_count) ==
    IF uses_per_month.some
    THEN IF uses_per_month.val >= 5 * Scale THEN 30
         ELSE IF uses_per_month.val >= 1 * Scale THEN 10
         ELSE 0 - 20
    ELSE IF usage_count.some
    THEN IF usage_count.val >= 50 * Scale THEN 20
         ELSE IF usage_count.val >= 5 * Scale THEN 5
         ELSE 0 - 15
    ELSE 0 - 5

RecencyAdjust(days) ==
    IF ~days.some THEN 0 - 5
    ELSE IF days.val > OLD_THRESHOLD_DAYS THEN 0 - 25
    ELSE IF days.val > 30 THEN 0 - 5
    ELSE 10

\* median2 is twice the median, amount > median_amount * HIGH_COST_FACTOR
\* is compared as 2 * DEN * amount > NUM * median2.
CostAdjust(amount, median2) ==
    IF median2 > 0
       /\ 2 * HIGH_COST_FACTOR_DEN * amount > HIGH_COST_FACTOR_NUM * median2
    THEN 0 - 15
    ELSE IF amount = 0 THEN 20
    ELSE 0

essential_cats ==
    { <<"i", "n", "f", "r", "a", "s", "t", "r", "u", "c", "t", "u", "r", "e">>, <<"a", "c", "c", "o", "u", "n", "t", "i", "n", "g">>, <<"p", "a", "y", "m", "e", "n", "t">>, <<"c", "r", "m">>, <<"d", "e", "v", "o", "p", "s">>,
      <<"s", "e", "c", "u", "r", "i", "t", "y">> }

\* category is None when unbound; a missing cell is NaN, which is truthy and
\* reads "nan".
CategoryAdjust(category) ==
    IF category.some /\ StrOf(category.val) # <<>>
       /\ Lower(Strip(StrOf(category.val))) \in essential_cats
    THEN 30
    ELSE 0

AutoAdjust(is_auto) == IF is_auto THEN 5 ELSE 0 - 2

Max(a, b) == IF a >= b THEN a ELSE b

Min(a, b) == IF a <= b THEN a ELSE b

\* A clamp that forgets the lower end.
ClampUpperOnly(score) == Min(100, score)

\* score = max(0, min(100, score))
Clamp(score) == Max(0, Min(100, score))

\* A decision that cancels at the threshold itself.
DecisionOfStrict(score) == IF score > 50 THEN "keep" ELSE "cancel"

DecisionOf(score) == IF score >= 50 THEN "keep" ELSE "cancel"

\* The reason string, as the list of its parts before "; ".join.
ReasonsOf(uses_per_month, usage_count, days, amount, currency, is_auto) ==
    (IF uses_per_month.some
     THEN << <<"uses_per_month", uses_per_month.val>> >> ELSE <<>>)
    \o (IF usage_count.some
        THEN << <<"usage_count", IntOf(usage_count.val)>> >> ELSE <<>>)
    \o (IF days.some
        THEN << <<"days_since_last_use", days.val>> >> ELSE <<>>)
    \o << <<"amount", amount, currency>> >>
    \o << IF is_auto THEN <<"auto-renew">> ELSE <<"manual">> >>

\* The candidate record of row i (the field row is not in the code: it
\* remembers where the candidate came from).  Frequency, Category and
\* Notes, which are copied from the row and read by nothing here, are left
\* out.
CandidateOf(i, service, amount, currency, uses_per_month, usage_count, days, is_auto, score) ==
    [row |-> i,
     Service |-> service,
     Amount |-> amount,
     Currency |-> currency,
     UsesPerMonth |-> [some |-> uses_per_month.some, val |-> uses_per_month.val],
     UsageCount |-> [some |-> usage_count.some, val |-> usage_count.val],
     DaysSinceLastUse |-> [some |-> days.some, val |-> days.val],
     IsAutoRenew |-> is_auto,
     Score |-> score,
     Decision |-> DecisionOf(score),
     ReasonSummary |->
         ReasonsOf(uses_per_month, usage_count, days, amount, currency,
                   is_auto)]

\* The scoring of one row from its normalized fields.
ScoreFields(i, service, amount, currency, category, uses_per_month, usage_count, days, is_auto, median2) ==
    IF uses_per_month.raised \/ usage_count.raised \/ days.raised
    THEN Raised
    ELSE Returned(
           CandidateOf(i, service, amount, currency, uses_per_month,
                       usage_count, days, is_auto,
                       Clamp(50 + UsageAdjust(uses_per_month, usage_count)
                                + RecencyAdjust(days)
                                + CostAdjust(amount, median2)
                                + CategoryAdjust(category)
                                + AutoAdjust(is_auto))))

\* One pass of the second loop: the fields of row r, the i-th of the table,
\* then its score.
ScoreRow(r, i, cols, cm, median2) ==
    ScoreFields(
        i,
        IF cm["service"] # None THEN StrOf(CellOf(r, cols, cm["service"]))
        ELSE IF cm["subscription_id"] # None
             THEN StrOf(CellOf(r, cols, cm["subscription_id"]))
             ELSE <<"U", "n", "k", "n", "o", "w", "n", " ", "S", "e", "r", "v", "i", "c", "e">>,
        IF cm["amount"] # None
        THEN parse_amount(CellOf(r, cols, cm["amount"])).val ELSE 0,
        IF cm["currency"] # None THEN StrOf(CellOf(r, cols, cm["currency"]))
        ELSE <<"U", "S", "D">>,
        IF cm["category"] # None THEN Some(CellOf(r, cols, cm["category"]))
        ELSE Nothing,
        IF cm["uses_per_month"] # None
        THEN SomeOf(parse_number(CellOf(r, cols, cm["uses_per_month"])))
        ELSE Nothing,
        IF cm["usage_count"] # None
        THEN SomeOf(parse_number(CellOf(r, cols, cm["usage_count"])))
        ELSE Nothing,
        IF cm["last_used_date"] # None
        THEN days_since(to_datetime(CellOf(r, cols, cm["last_used_date"])))
        ELSE Nothing,
        IF cm["is_automatic"] # None
        THEN parse_bool(CellOf(r, cols, cm["is_automatic"])).val ELSE TRUE,
        median2)

\* An insertion that puts c before the elements of equal score.
PlaceAt(sorted, c, k) ==
    SubSeq(sorted, 1, k) \o <<c>> \o SubSeq(sorted, k + 1, Len(sorted))

InsertBeforeEqual(sorted, c) ==
    PlaceAt(sorted, c,
            Cardinality({j \in 1..Len(sorted) : sorted[j].Score < c.Score}))

\* c goes after every element whose score is not above its own.
InsertByScore(sorted, c) ==
    PlaceAt(sorted, c,
            Cardinality({j \in 1..Len(sorted) : sorted[j].Score <= c.Score}))

\* sorted(rows, key=lambda x: x["Score"]): Python's sort is stable; on a
\* short list it is an insertion sort.
RECURSIVE SortedByScore(_)
SortedByScore(rows) ==
    IF rows = <<>> THEN <<>>
    ELSE InsertByScore(SortedByScore(SubSeq(rows, 1, Len(rows) - 1)),
                       rows[Len(rows)])

InsertInt(sorted, x) ==
    SubSeq(sorted, 1, Cardinality({j \in 1..Len(sorted) : sorted[j] <= x}))
        \o <<x>>
        \o SubSeq(sorted,
                  Cardinality({j \in 1..Len(sorted) : sorted[j] <= x}) + 1,
                  Len(sorted))

RECURSIVE SortedInts(_)
SortedInts(xs) ==
    IF xs = <<>> THEN <<>>
    ELSE InsertInt(SortedInts(SubSeq(xs, 1, Len(xs) - 1)), xs[Len(xs)])

\* Twice the median of a sorted list (0.0 stands for an empty one).
MiddleTwice(xs) ==
    IF Len(xs) = 0 THEN 0
    ELSE IF Len(xs) % 2 = 1 THEN 2 * xs[(Len(xs) + 1) \div 2]
    ELSE xs[Len(xs) \div 2] + xs[(Len(xs) \div 2) + 1]

\* Twice pd.Series(amount_vals).median().
Median2(amount_vals) == MiddleTwice(SortedInts(amount_vals))

\* The first loop: the parsed amounts of all rows.
AmountVals(table, cols, cm) ==
    [i \in 1..Len(table) |->
       IF cm["amount"] # None
       THEN parse_amount(CellOf(table[i], cols, cm["amount"])).val
       ELSE 0]

\* The second loop.
ScoredRows(table, cols, cm, median2) ==
    [i \in 1..Len(table) |-> ScoreRow(table[i], i, cols, cm, median2)]

\* The exception of some row, or the sorted candidates.
SortedOrRaised(scored) ==
    IF \E i \in 1..Len(scored) : scored[i].raised THEN Raised
    ELSE Returned(SortedByScore([i \in 1..Len(scored) |-> scored[i].val]))

\* [raised, val]: the sorted candidates, or an exception of some row.
compute_recommendations(table, cols, cm) ==
    SortedOrRaised(
        ScoredRows(table, cols, cm, Median2(AmountVals(table, cols, cm))))

(***************************************************************************)
(* The schema mapper on its own: header lists read from a pool, then       *)
(* mapped.                                                                 *)
(***************************************************************************)
HeaderPool ==
    { <<"s", "e", "r", "v", "i", "c", "e", "_", "n", "a", "m", "e">>, <<"S", "e", "r", "v", "i", "c", "e", "_", "N", "a", "m", "e">>, <<"n", "a", "m", "e">>, <<"V", "e", "n", "d", "o", "r">>, <<"p", "l", "a", "n", "_", "t", "y", "p", "e">>,
      <<"P", "r", "i", "c", "e">>, <<"p", "r", "i", "c", "e">>, <<"A", "u", "t", "o", "R", "e", "n", "e", "w">>, <<"u", "s", "e", "s">>, <<"z", "z", "z">> }

Unmapped == [f \in Fields |-> None]

Range(s) == {s[i] : i \in 1..Len(s)}

InitMap ==
    /\ pc = "read"
    /\ headers = <<>>
    /\ df = <<>>
    /\ colmap = Unmapped
    /\ recs = <<>>
    /\ llm_text = <<>>
    /\ summary = <<>>

\* try_read_csv yields the next column name (pandas keeps names distinct).
ReadHeader ==
    /\ pc = "read"
    /\ Len(headers) < MaxHeaders
    /\ \E h \in HeaderPool :
          /\ h \notin Range(headers)
          /\ headers' = Append(headers, h)
    /\ UNCHANGED <<pc, df, colmap, recs, llm_text, summary>>

\* colmap = map_columns(df)
MapColumns ==
    /\ pc = "read"
    /\ headers # <<>>
    /\ colmap' = map_columns(headers)
    /\ pc' = "mapped"
    /\ UNCHANGED <<headers, df, recs, llm_text, summary>>

NextMap == ReadHeader \/ MapColumns

SpecMap == InitMap /\ [][NextMap]_vars

(***************************************************************************)
(* Report composer.  The summary is the list of its lines; a line is a    *)
(* tuple of its kind and of the values formatted into it.                  *)
(***************************************************************************)
TOP_FOR_LLM == 10

\* top_cancels[:20]
SUMMARY_TOP == 20

\* str.upper() of a decision.
UpperOf(decision) == IF decision = "cancel" THEN "CANCEL" ELSE "KEEP"

IsCancel(r) == r.Decision = "cancel"

\* [r for r in recs if r["Decision"] == "cancel"]
CancelsOf(rs) == SelectSeq(rs, IsCancel)

\* A slice that shows every cancel candidate.
ShownAll(top_cancels) == top_cancels

\* top_cancels[:20]
Shown(top_cancels) == SubSeq(top_cancels, 1, Min(SUMMARY_TOP, Len(top_cancels)))

RecLine(r) ==
    <<"rec", r.Service, r.Amount, UpperOf(r.Decision), r.ReasonSummary>>

FallbackLine == <<"none">>

RecLines(shown) == [i \in 1..Len(shown) |-> RecLine(shown[i])]

compose_summary(rs, llm_explanation) ==
    << <<"total", Len(rs)>>, <<"cancel", Len(CancelsOf(rs))>>,
       <<"keep", Len(rs) - Len(CancelsOf(rs))>>, <<"blank">>, <<"top">> >>
        \o (IF CancelsOf(rs) = <<>> THEN <<FallbackLine>>
            ELSE RecLines(Shown(CancelsOf(rs))))
        \o (IF llm_explanation # <<>>
            THEN << <<"blank">>, <<"llm">>, <<"text", llm_explanation>> >>
            ELSE <<>>)
        \o << <<"blank">>, <<"steps">>, <<"step", 1>>, <<"step", 2>>,
               <<"step", 3>> >>

(***************************************************************************)
(* The pipeline of main(): read the table, map its columns, score its      *)
(* rows, ask for the narrative, compose the summary.                       *)
(***************************************************************************)
\* The tables of the model: the column names of each.
HeaderLists ==
    { << <<"s", "e", "r", "v", "i", "c", "e", "_", "n", "a", "m", "e">>, <<"P", "r", "i", "c", "e">>, <<"A", "u", "t", "o", "R", "e", "n", "e", "w">> >>,
      << <<"u", "s", "e", "s", "_", "p", "e", "r", "_", "m", "o", "n", "t", "h">>, <<"l", "a", "s", "t", "_", "u", "s", "e", "d">>, <<"C", "o", "s", "t">>, <<"c", "a", "t", "e", "g", "o", "r", "y">> >>,
      << <<"u", "s", "a", "g", "e", "_", "c", "o", "u", "n", "t">>, <<"l", "a", "s", "t", "_", "s", "e", "e", "n">>, <<"a", "u", "t", "o">>, <<"c", "u", "r", "r", "e", "n", "c", "y">> >>,
      << <<"u", "s", "e", "s">> >>,
      << <<"z", "z", "z">> >> }

DaysAgo(d, h) == Today - (d * HoursPerDay + h)

\* The cells a column of the model's tables may hold.
CellPool(h) ==
    CASE h = <<"P", "r", "i", "c", "e">> ->
           {Missing, Text(<<"$", "1", ",", "2", "3", "4", ".", "5", "0">>), Text(<<"0">>), Text(<<"-", "5">>),
            Text(<<"1", "2", "x">>)}
      [] h = <<"A", "u", "t", "o", "R", "e", "n", "e", "w">> -> {Missing, Text(<<" ", "Y", "E", "S">>), Text(<<"n", "o">>)}
      [] h = <<"u", "s", "e", "s", "_", "p", "e", "r", "_", "m", "o", "n", "t", "h">> ->
           {Num(0), Num(1 * Scale), Text(<<"5">>)}
      [] h = <<"l", "a", "s", "t", "_", "u", "s", "e", "d">> ->
           {Missing, Date(DaysAgo(30, 5)), Date(DaysAgo(200, 0)),
            Date(Today + 1)}
      [] h = <<"C", "o", "s", "t">> -> {Missing, Num(15 * Scale), Text(<<"-", "5">>)}
      [] h = <<"c", "a", "t", "e", "g", "o", "r", "y">> -> {Text(<<" ", "I", "n", "f", "r", "a", "s", "t", "r", "u", "c", "t", "u", "r", "e">>), Text(<<"m", "i", "s", "c">>)}
      [] h = <<"u", "s", "a", "g", "e", "_", "c", "o", "u", "n", "t">> ->
           {Num(4 * Scale), Num(5 * Scale), Text(<<"4", "9", "x">>), Num(50 * Scale)}
      [] h = <<"l", "a", "s", "t", "_", "s", "e", "e", "n">> ->
           {Text(<<"s", "o", "o", "n">>), DateTz(DaysAgo(10, 0)), Date(DaysAgo(31, 0)),
            Date(DaysAgo(180, 23)), Date(DaysAgo(181, 0))}
      [] h = <<"a", "u", "t", "o">> -> {Text(<<"Y", "e", "s">>), Text(<<"0">>)}
      [] h = <<"c", "u", "r", "r", "e", "n", "c", "y">> -> {Text(<<"E", "U", "R">>)}
      [] h = <<"u", "s", "e", "s">> ->
           {Num(0), Num(1 * Scale), Num(5 * Scale), Num(50 * Scale),
            Text(<<"1", ".", "2", ".", "3">>)}
      [] OTHER -> {Text(<<"Z", "o", "o", "m">>)}

RECURSIVE RowsOf(_)
RowsOf(cols) ==
    IF cols = <<>> THEN {<<>>}
    ELSE {<<c>> \o r : c \in CellPool(Head(cols)), r \in RowsOf(Tail(cols))}

LlmTexts == {<<>>, <<"a", "d", "v", "i", "c", "e">>}

Init ==
    /\ pc = "read"
    /\ headers \in HeaderLists
    /\ df = <<>>
    /\ colmap = Unmapped
    /\ recs = <<>>
    /\ llm_text = <<>>
    /\ summary = <<>>

\* try_read_csv yields the next row of the table.
ReadRow ==
    /\ pc = "read"
    /\ Len(df) < MaxRows
    /\ (Len(df) + 1) * Len(headers) <= MaxCells
    /\ \E r \in RowsOf(headers) : df' = Append(df, r)
    /\ UNCHANGED <<pc, headers, colmap, recs, llm_text, summary>>

\* recs = compute_recommendations(df, colmap); an exception ends main().
Finish(result) ==
    IF result.raised
    THEN pc' = "raised" /\ recs' = recs
    ELSE pc' = "scored" /\ recs' = result.val

ComputeRecommendations ==
    /\ pc = "mapped"
    /\ Finish(compute_recommendations(df, headers, colmap))
    /\ UNCHANGED <<headers, df, colmap, llm_text, summary>>

\* The narrative is asked for only when there are cancel candidates, about
\* the first TOP_FOR_LLM of them; it is any text, or empty when the call is
\* unavailable or fails.
CallGemini ==
    /\ pc = "scored"
    /\ IF CancelsOf(recs) # <<>>
       THEN llm_text' \in LlmTexts
       ELSE llm_text' = <<>>
    /\ pc' = "explained"
    /\ UNCHANGED <<headers, df, colmap, recs, summary>>

\* summary = compose_summary(recs, llm_text)
ComposeSummary ==
    /\ pc = "explained"
    /\ summary' = compose_summary(recs, llm_text)
    /\ pc' = "done"
    /\ UNCHANGED <<headers, df, colmap, recs, llm_text>>

Next ==
    \/ ReadRow
    \/ MapColumns
    \/ ComputeRecommendations
    \/ CallGemini
    \/ ComposeSummary

Spec == Init /\ [][Next]_vars

(***************************************************************************)
(* The report composer on its own: any list of candidates, built one       *)
(* candidate at a time, and any narrative.                                 *)
(***************************************************************************)
ServiceName(n) ==
    <<"S", DigitChars[((n \div 10) % 10) + 1], DigitChars[(n % 10) + 1]>>

GivenCandidate(n, decision, score) ==
    [row |-> n,
     Service |-> ServiceName(n),
     Amount |-> n * Scale,
     Currency |-> <<"U", "S", "D">>,
     UsesPerMonth |-> Nothing,
     UsageCount |-> Nothing,
     DaysSinceLastUse |-> Nothing,
     IsAutoRenew |-> TRUE,
     Score |-> score,
     Decision |-> decision,
     ReasonSummary |-> << <<"amount", n * Scale, <<"U", "S", "D">>>>, <<"auto-renew">> >>]

\* A plain cancel candidate has a score below the threshold; the others are
\* a keep candidate and a cancel candidate whose score is above it.
IsPlain(r) == r.Decision = "cancel" /\ r.Score < 50

InitSummary ==
    /\ pc = "explained"
    /\ headers = <<>>
    /\ df = <<>>
    /\ colmap = Unmapped
    /\ recs = <<>>
    /\ llm_text \in LlmTexts
    /\ summary = <<>>

GiveCandidate ==
    /\ pc = "explained"
    /\ Len(recs) < MaxRecs
    /\ \E k \in {<<"cancel", 40>>, <<"keep", 60>>, <<"cancel", 60>>} :
          LET c == GivenCandidate(Len(recs) + 1, k[1], k[2])
          IN  /\ IsPlain(c)
                 \/ Cardinality({i \in 1..Len(recs) : ~IsPlain(recs[i])})
                        < MaxOther
              /\ recs' = Append(recs, c)
    /\ UNCHANGED <<pc, headers, df, colmap, llm_text, summary>>

NextSummary == GiveCandidate \/ ComposeSummary

SpecSummary == InitSummary /\ [][NextSummary]_vars

(***************************************************************************)
(* Properties of the schema mapper.                                        *)
(***************************************************************************)
\* Alias j of field f equals header i, letter case aside.
LowerHeaders == [i \in 1..Len(headers) |-> Lower(headers[i])]

ExactAt(f, j, i) == LowerHeaders[i] = LowerCandidates[f][j]

\* Header i and some alias of field f contain one another, letter case aside.
FuzzyAt(f, i) ==
    \E j \in 1..Len(COLUMN_CANDIDATES[f]) :
        \/ Contains(LowerHeaders[i], LowerCandidates[f][j])
        \/ Contains(LowerCandidates[f][j], LowerHeaders[i])

HasExact(f) ==
    \E j \in 1..Len(COLUMN_CANDIDATES[f]) : \E i \in 1..Len(headers) :
        ExactAt(f, j, i)

FirstExactAlias(f) ==
    CHOOSE j \in 1..Len(COLUMN_CANDIDATES[f]) :
        /\ \E i \in 1..Len(headers) : ExactAt(f, j, i)
        /\ \A k \in 1..(j - 1) : \A i \in 1..Len(headers) : ~ExactAt(f, k, i)

HasFuzzy(f) == \E i \in 1..Len(headers) : FuzzyAt(f, i)

FirstFuzzyHeader(f) ==
    CHOOSE i \in 1..Len(headers) :
        FuzzyAt(f, i) /\ \A k \in 1..(i - 1) : ~FuzzyAt(f, k)

\* The last header that equals header i, letter case aside.
LastSpelling(i) ==
    headers[CHOOSE k \in 1..Len(headers) :
               /\ LowerHeaders[k] = LowerHeaders[i]
               /\ \A m \in (k + 1)..Len(headers) :
                     LowerHeaders[m] # LowerHeaders[i]]

SpecExampleHeaders == << <<"s", "e", "r", "v", "i", "c", "e", "_", "n", "a", "m", "e">>, <<"P", "r", "i", "c", "e">>, <<"A", "u", "t", "o", "R", "e", "n", "e", "w">> >>

SpecExampleHolds ==
    headers = SpecExampleHeaders =>
        /\ colmap["service"] = <<"s", "e", "r", "v", "i", "c", "e", "_", "n", "a", "m", "e">>
        /\ colmap["amount"] = <<"P", "r", "i", "c", "e">>
        /\ colmap["is_automatic"] = <<"A", "u", "t", "o", "R", "e", "n", "e", "w">>

\* C4 as stated: exact aliases first, in alias order; otherwise the first
\* header, in header-list order, that contains or is contained in an alias;
\* otherwise unbound.
C4_FirstHeaderInListOrder ==
    pc = "mapped" =>
        /\ \A f \in Fields :
              IF HasExact(f)
              THEN /\ colmap[f] \in Range(headers)
                   /\ Lower(colmap[f]) = LowerCandidates[f][FirstExactAlias(f)]
              ELSE IF HasFuzzy(f)
                   THEN colmap[f] = headers[FirstFuzzyHeader(f)]
                   ELSE colmap[f] = None
        /\ SpecExampleHolds

\* The policy of C4 as map_columns carries it out: headers that differ only
\* in letter case are one column of the scan, at the place of the first of
\* them and bound under the spelling of the last of them.
C4_TwoPhasePolicy ==
    pc = "mapped" =>
        /\ \A f \in Fields :
              IF HasExact(f)
              THEN \E i \in 1..Len(headers) :
                      /\ ExactAt(f, FirstExactAlias(f), i)
                      /\ colmap[f] = LastSpelling(i)
              ELSE IF HasFuzzy(f)
                   THEN colmap[f] = LastSpelling(FirstFuzzyHeader(f))
                   ELSE colmap[f] = None
        /\ SpecExampleHolds

\* A mapped header list in which one field is bound by an exact alias
\* although an earlier header matches fuzzily, one field is bound by the
\* fuzzy pass past a non-matching header, and one field is unbound.
C4_Witness ==
    /\ pc = "mapped"
    /\ \E f \in Fields :
          /\ HasExact(f)
          /\ \E i \in 1..Len(headers) :
                FuzzyAt(f, i) /\ headers[i] # colmap[f] /\ colmap[f] # None
    /\ \E f \in Fields :
          ~HasExact(f) /\ HasFuzzy(f) /\ FirstFuzzyHeader(f) > 1
    /\ \E f \in Fields : colmap[f] = None

\* C10 as stated: no header is bound to two canonical fields.
C10_DistinctColumns ==
    pc = "mapped" =>
        \A f \in Fields : \A g \in Fields :
            (f # g /\ colmap[f] # None) => colmap[f] # colmap[g]

(***************************************************************************)
(* Properties of the scoring engine, stated over the table that was read   *)
(* (df, headers, colmap) and the candidates that were returned (recs).     *)
(***************************************************************************)
\* compute_recommendations has just returned recs.
Scored == pc = "scored"

Bound(f) == colmap[f] # None

\* The raw cell that row k holds for a bound field f.
RowCell(k, f) == CellOf(df[k], headers, colmap[f])

ClaimUsesPerMonth(k) == parse_number(RowCell(k, "uses_per_month")).val

ClaimUsageCount(k) == parse_number(RowCell(k, "usage_count")).val

ClaimU(k) ==
    IF Bound("uses_per_month")
    THEN IF ClaimUsesPerMonth(k) >= 5 * Scale THEN 30
         ELSE IF ClaimUsesPerMonth(k) >= 1 * Scale THEN 10 ELSE 0 - 20
    ELSE IF Bound("usage_count")
    THEN IF ClaimUsageCount(k) >= 50 * Scale THEN 20
         ELSE IF ClaimUsageCount(k) >= 5 * Scale THEN 5 ELSE 0 - 15
    ELSE 0 - 5

\* Recency is known when the bound last-used cell parses to a timestamp.
ClaimKnown(k) ==
    Bound("last_used_date") /\ RowCell(k, "last_used_date").kind = "date"

\* Whole days from the timestamp to now.
ClaimDays(k) ==
    CHOOSE d \in -2..202 :
        /\ d * HoursPerDay <= Today - RowCell(k, "last_used_date").val
        /\ Today - RowCell(k, "last_used_date").val < (d + 1) * HoursPerDay

ClaimR(k) ==
    IF ~ClaimKnown(k) THEN 0 - 5
    ELSE IF ClaimDays(k) > 180 THEN 0 - 25
    ELSE IF ClaimDays(k) > 30 THEN 0 - 5
    ELSE 10

ClaimAmount(k) ==
    IF Bound("amount") THEN parse_amount(RowCell(k, "amount")).val ELSE 0

\* The m-th smallest amount of the table.
ClaimKthAmount(m) ==
    CHOOSE v \in {ClaimAmount(k) : k \in 1..Len(df)} :
        /\ Cardinality({k \in 1..Len(df) : ClaimAmount(k) < v}) < m
        /\ Cardinality({k \in 1..Len(df) : ClaimAmount(k) <= v}) >= m

\* Twice the median amount of the table.
ClaimMedian2 ==
    IF df = <<>> THEN 0
    ELSE ClaimKthAmount((Len(df) + 1) \div 2)
            + ClaimKthAmount((Len(df) \div 2) + 1)

\* median > 0 and amount > 1.5 * median, for median = median2 / 2
ClaimHighCost(k, median2) == median2 > 0 /\ 4 * ClaimAmount(k) > 3 * median2

ClaimC(k, median2) ==
    IF ClaimHighCost(k, median2) THEN 0 - 15
    ELSE IF ClaimAmount(k) = 0 THEN 20
    ELSE 0

ClaimEssential(k) ==
    /\ Bound("category")
    /\ Lower(Strip(StrOf(RowCell(k, "category")))) \in
          { <<"i", "n", "f", "r", "a", "s", "t", "r", "u", "c", "t", "u", "r", "e">>, <<"a", "c", "c", "o", "u", "n", "t", "i", "n", "g">>, <<"p", "a", "y", "m", "e", "n", "t">>, <<"c", "r", "m">>,
            <<"d", "e", "v", "o", "p", "s">>, <<"s", "e", "c", "u", "r", "i", "t", "y">> }

ClaimG(k) == IF ClaimEssential(k) THEN 30 ELSE 0

ClaimAuto(k) ==
    ~Bound("is_automatic") \/ parse_bool(RowCell(k, "is_automatic")).val

ClaimA(k) == IF ClaimAuto(k) THEN 5 ELSE 0 - 2

ClaimRaw(k, median2) ==
    50 + ClaimU(k) + ClaimR(k) + ClaimC(k, median2) + ClaimG(k) + ClaimA(k)

ClampOf(raw) == IF raw < 0 THEN 0 ELSE IF raw > 100 THEN 100 ELSE raw

ClaimScore(k, median2) == ClampOf(ClaimRaw(k, median2))

\* The first end-to-end scenario of the specification: no use, last used
\* 200 days ago, an amount of three times the median, an essential
\* category, auto-renew.
Scenario1(k, median2) ==
    /\ Bound("uses_per_month") /\ ClaimUsesPerMonth(k) = 0
    /\ ClaimKnown(k) /\ ClaimDays(k) = 200
    /\ median2 > 0 /\ 2 * ClaimAmount(k) = 3 * median2
    /\ Bound("category")
    /\ Lower(Strip(StrOf(RowCell(k, "category")))) = <<"i", "n", "f", "r", "a", "s", "t", "r", "u", "c", "t", "u", "r", "e">>
    /\ ClaimAuto(k)

\* The second one: amount 0, no usage field, no last-used field, no
\* category, not auto-renew.
Scenario2(k) ==
    /\ ClaimAmount(k) = 0
    /\ ~Bound("uses_per_month") /\ ~Bound("usage_count")
    /\ ~Bound("last_used_date")
    /\ ~Bound("category")
    /\ ~ClaimAuto(k)

\* C1: every returned candidate has a score from 0 to 100.
C1_ScoreClamped ==
    Scored => \A i \in 1..Len(recs) : recs[i].Score >= 0 /\ recs[i].Score <= 100

\* A returned table with a candidate whose adjustments sum below 0 and one
\* whose adjustments sum above 100.
C1_Witness ==
    /\ Scored
    /\ \E i \in 1..Len(recs) :
          ClaimRaw(recs[i].row, ClaimMedian2) < 0 /\ recs[i].Score = 0
    /\ \E i \in 1..Len(recs) :
          ClaimRaw(recs[i].row, ClaimMedian2) > 100 /\ recs[i].Score = 100

\* C2: the decision is cancel exactly when the score is below 50, and keep
\* otherwise.
C2_DecisionThreshold ==
    Scored =>
        \A i \in 1..Len(recs) :
            /\ recs[i].Decision \in {"cancel", "keep"}
            /\ recs[i].Decision = "cancel" <=> recs[i].Score < 50

\* A returned table with a kept candidate of score exactly 50 and a
\* cancelled one.
C2_Witness ==
    /\ Scored
    /\ \E i \in 1..Len(recs) : recs[i].Score = 50 /\ recs[i].Decision = "keep"
    /\ \E i \in 1..Len(recs) : recs[i].Decision = "cancel"

\* C3: the score of every row is clamp(50 + U + R + C + G + A) with the
\* adjustments of the claim, and the two end-to-end scenarios give 25
\* (cancel) and 58 (keep).
C3_ScoreFormula ==
    Scored =>
        \A i \in 1..Len(recs) :
            /\ recs[i].Score = ClaimScore(recs[i].row, ClaimMedian2)
            /\ Scenario1(recs[i].row, ClaimMedian2) =>
                  recs[i].Score = 25 /\ recs[i].Decision = "cancel"
            /\ Scenario2(recs[i].row) =>
                  recs[i].Score = 58 /\ recs[i].Decision = "keep"

\* A returned table with a row of the first scenario, where both usage
\* fields are bound.
C3_Witness ==
    /\ Scored
    /\ Bound("usage_count")
    /\ \E i \in 1..Len(recs) :
          Scenario1(recs[i].row, ClaimMedian2) /\ recs[i].Score = 25

\* A returned table with a row of the second scenario.
Scenario2Reached ==
    /\ Scored
    /\ \E i \in 1..Len(recs) : Scenario2(recs[i].row) /\ recs[i].Score = 58

\* The cells of the table that hold a number, a text or nothing.
PlainCells ==
    {df[i][j] : i \in 1..Len(df), j \in 1..Len(headers)}
        \cap {c \in UNION {CellPool(headers[j]) : j \in 1..Len(headers)} :
                c.kind \in {"nan", "num", "text"}}

\* C5 as stated: no normalizer raises on a cell of the table, and no
\* exception leaves compute_recommendations because of such a cell.
C5_NormalizersNeverRaise ==
    /\ \A c \in PlainCells :
          /\ ~parse_amount(c).raised
          /\ ~parse_number(c).raised
          /\ ~parse_bool(c).raised
    /\ pc = "raised" =>
          \E k \in 1..Len(df) :
              /\ Bound("last_used_date")
              /\ RowCell(k, "last_used_date").kind = "datetz"

\* C6 as stated: a reported day count is never negative, in the candidate
\* and in its reason string.
C6_DaysNonNegative ==
    Scored =>
        \A i \in 1..Len(recs) :
            /\ recs[i].DaysSinceLastUse.some => recs[i].DaysSinceLastUse.val >= 0
            /\ \A p \in 1..Len(recs[i].ReasonSummary) :
                  recs[i].ReasonSummary[p][1] = "days_since_last_use"
                      => recs[i].ReasonSummary[p][2] >= 0

\* C7 as stated: a reported amount is never negative.
C7_AmountNonNegative ==
    Scored => \A i \in 1..Len(recs) : recs[i].Amount >= 0

\* C8: the returned list holds one candidate per row, in ascending order of
\* score, candidates of equal score in the order of their rows.
C8_StableAscending ==
    Scored =>
        /\ Len(recs) = Len(df)
        /\ {recs[i].row : i \in 1..Len(recs)} = 1..Len(df)
        /\ \A i \in 1..Len(recs) : \A j \in (i + 1)..Len(recs) :
              /\ recs[i].Score <= recs[j].Score
              /\ recs[i].Score = recs[j].Score => recs[i].row < recs[j].row

\* A returned list of three candidates, two of equal score, in which the
\* sort moved a later row before an earlier one.
C8_Witness ==
    /\ Scored
    /\ Len(recs) >= 3
    /\ \E i \in 1..Len(recs) : \E j \in (i + 1)..Len(recs) :
          recs[i].Score = recs[j].Score
    /\ \E i \in 1..Len(recs) : \E j \in (i + 1)..Len(recs) :
          recs[i].row > recs[j].row

(***************************************************************************)
(* Properties of the report composer.                                      *)
(***************************************************************************)
CancelPlaces == {i \in 1..Len(recs) : recs[i].Decision = "cancel"}

\* The rank of place i among the cancel candidates.
CancelRank(i) == Cardinality({j \in CancelPlaces : j <= i})

IsRecLine(line) == line[1] = "rec"

\* The recommendation lines of the summary, in order.
RecLinesOfSummary == SelectSeq(summary, IsRecLine)

ShownCount ==
    IF Cardinality(CancelPlaces) < 20 THEN Cardinality(CancelPlaces) ELSE 20

\* C9: the fallback line is there exactly when no candidate is a cancel
\* candidate; otherwise the recommendation lines are those of the first
\* min(20, c) cancel candidates by decision, in the order of the list.
C9_SummaryLines ==
    pc = "done" =>
        LET lines == RecLinesOfSummary
        IN  /\ (\E p \in 1..Len(summary) : summary[p] = FallbackLine)
                  <=> CancelPlaces = {}
            /\ Len(lines) = ShownCount
            /\ \A i \in CancelPlaces :
                  CancelRank(i) <= 20 =>
                      lines[CancelRank(i)] =
                          <<"rec", recs[i].Service, recs[i].Amount, "CANCEL",
                            recs[i].ReasonSummary>>

\* A summary of a list with more than 20 cancel candidates, one of them
\* with a score of 50 or more among the first 20, and a keep candidate
\* before the 20th.
C9_Witness ==
    /\ pc = "done"
    /\ Cardinality(CancelPlaces) > 20
    /\ \E i \in CancelPlaces : i < 20 /\ recs[i].Score >= 50
    /\ \E i \in 1..19 : recs[i].Decision = "keep"

\* A summary with the fallback line.
FallbackReached ==
    pc = "done" /\ recs # <<>> /\ CancelPlaces = {}
       /\ \E p \in 1..Len(summary) : summary[p] = FallbackLine

====
